---- MODULE Spec2Model ----
(***************************************************************************)
(* A model of translate_drawio.py: the translation backend chain with its  *)
(* cache (class Translator), the allow-list language classifier            *)
(* (detect_primary_language_allowed), the container resolver and label     *)
(* rewriter over an ElementTree page (ensure_userobject_wrapper,           *)
(* translate_and_apply_for_element, process_diagram_xml) and the document  *)
(* processor with its page codec (process_drawio_file).                    *)
(*                                                                         *)
(* Python strings are TLA+ strings; str.strip, str.lower, html.unescape    *)
(* and the tag-stripping regular expression are computed character by      *)
(* character.  None and the empty string are both written "" where the     *)
(* code only tests truthiness (text or "", source_lang or ...).            *)
(***************************************************************************)
EXTENDS Integers, Sequences, FiniteSets, TLC

VARIABLES
    \* ---- Translator (one instance) ----
    cache,            \* Translator._cache: (f"{src}:{txt}", tgt) -> str
    fallback_engines, \* Translator.fallback_engines
    trCall,           \* the last Translator.translate call: arguments and outcome
    firstRet,         \* history: (source_lang, text, target_lang) -> first value returned
    \* ---- detect_primary_language_allowed ----
    clsIn,            \* the arguments of the call and what its environment does
    clsOut,           \* the language code returned, once the call has run
    \* ---- one page: process_diagram_xml / translate_and_apply_for_element ----
    tree,             \* the page's elements: node id -> [tag, attrib, children]
    parent_map,       \* build_parent_map's dict, as updated by the wrapper
    elems,            \* the snapshot list(inner_root.iter())
    pos,              \* index in elems of the next element; 0 outside a run
    primary_lang,     \* the page's detected primary language
    page,             \* the run's arguments: languages, overwrite, backend
    run,              \* how many times the page has been processed
    firstRun,         \* history: the tree and primary language after run 1
    rwCall,           \* the last translate_and_apply_for_element call, the tree before it
    \* ---- one document: process_drawio_file ----
    job,              \* the call's arguments, the input file and the output path's state
    doc,              \* the <diagram> elements of the parsed document, in order
    dpos,             \* index in doc of the next <diagram>; 0 before parsing
    dstate,           \* "start", "running", "written" or "aborted" (an exception left the call)
    failed,           \* history: the pages whose processing raised
    outfile           \* the output path: exists, times written by the call, pages written

trVars == <<cache, fallback_engines, trCall, firstRet>>
clsVars == <<clsIn, clsOut>>
rwVars == <<tree, parent_map, elems, pos, primary_lang, page, run, firstRun, rwCall>>
docVars == <<job, doc, dpos, dstate, failed, outfile>>
vars == <<trVars, clsVars, rwVars, docVars>>

-----------------------------------------------------------------------------
(* Python string primitives                                                *)

\* str.isspace for one character (the whitespace str.strip removes).
IsSpace(c) == c \in {" ", "\t", "\n"}

CharAt(s, i) == SubSeq(s, i, i)

RECURSIVE LStrip(_)
LStrip(s) ==
    IF Len(s) = 0 THEN ""
    ELSE IF IsSpace(CharAt(s, 1)) THEN LStrip(Tail(s))
    ELSE s

RECURSIVE RStrip(_)
RStrip(s) ==
    IF Len(s) = 0 THEN ""
    ELSE IF IsSpace(CharAt(s, Len(s))) THEN RStrip(SubSeq(s, 1, Len(s) - 1))
    ELSE s

\* str.strip()
Strip(s) == RStrip(LStrip(s))

\* str.lower() of one character (ASCII letters)
LowerChar(c) ==
    CASE c = "A" -> "a" [] c = "B" -> "b" [] c = "C" -> "c" [] c = "D" -> "d"
      [] c = "E" -> "e" [] c = "F" -> "f" [] c = "G" -> "g" [] c = "H" -> "h"
      [] c = "I" -> "i" [] c = "J" -> "j" [] c = "K" -> "k" [] c = "L" -> "l"
      [] c = "M" -> "m" [] c = "N" -> "n" [] c = "O" -> "o" [] c = "P" -> "p"
      [] c = "Q" -> "q" [] c = "R" -> "r" [] c = "S" -> "s" [] c = "T" -> "t"
      [] c = "U" -> "u" [] c = "V" -> "v" [] c = "W" -> "w" [] c = "X" -> "x"
      [] c = "Y" -> "y" [] c = "Z" -> "z"
      [] OTHER -> c

\* str.lower()
RECURSIVE Lower(_)
Lower(s) ==
    IF Len(s) = 0 THEN ""
    ELSE LowerChar(CharAt(s, 1)) \o Lower(Tail(s))

\* str.startswith
StartsWith(s, p) == Len(s) >= Len(p) /\ SubSeq(s, 1, Len(p)) = p

\* s[n:]
Drop(s, n) == SubSeq(s, n + 1, Len(s))

-----------------------------------------------------------------------------
(* Translator                                                              *)

\* A raw backend outcome of ts.translate_text: it raises, returns something
\* that is not a str, or returns the str val.
Raises == [kind |-> "raise", val |-> ""]
NonStr == [kind |-> "nonstr", val |-> ""]
Str(s) == [kind |-> "str", val |-> s]

\* Optional[str]: None is [some |-> FALSE].
None == [some |-> FALSE, val |-> "", raised |-> FALSE]
Some(s) == [some |-> TRUE, val |-> s, raised |-> FALSE]
Escaped == [some |-> FALSE, val |-> "", raised |-> TRUE]

\* Faulty variant: the try/except around the backend call is missing.
TranslateWithEngineUncaught(outcome) ==
    IF outcome.kind = "raise" THEN Escaped
    ELSE IF outcome.kind = "str" /\ Strip(outcome.val) # "" THEN Some(outcome.val)
    ELSE None

\* Translator._translate_with_engine: the backend's outcome as the method
\* hands it on (an exception is caught and becomes None).
TranslateWithEngine(outcome) ==
    IF outcome.kind = "raise" THEN None
    ELSE IF outcome.kind = "str" /\ Strip(outcome.val) # "" THEN Some(outcome.val)
    ELSE None

\* Faulty variant: the assignment to the cache is lost.
DictSetLost(d, k, v) == d

\* dict assignment d[k] = v
DictSet(d, k, v) == [x \in (DOMAIN d) \cup {k} |-> IF x = k THEN v ELSE d[x]]

\* The cache key of translate: (f"{src}:{txt}", tgt)
CacheKey(src, txt, tgt) == <<src \o ":" \o txt, tgt>>

\* Faulty variant: a fallback's answer is accepted even if it is the text
\* itself.
FallbackAcceptedUnchanged(txt, o) == o.some /\ o.val # ""

\* `if out2 and out2.strip() != txt.strip()` for fallback number i
FallbackAccepted(txt, o) == o.some /\ o.val # "" /\ Strip(o.val) # Strip(txt)

\* Translator.translate(text, target_lang, source_lang) on cache c, where
\* outs[1] is what the primary backend does if called and outs[i + 1] what
\* fallback i does.  The result: the value returned, the cache afterwards,
\* the engines called in order, and whether an exception left the method.
Translate(c, self_source_lang, engine, fallbacks, text, target_lang, source_lang, outs) ==
    LET txt == Strip(text)
        src == Lower(IF source_lang # "" THEN source_lang
                     ELSE IF self_source_lang # "" THEN self_source_lang
                     ELSE "auto")
        tgt == Lower(target_lang)
        key == CacheKey(src, txt, tgt)
        out == TranslateWithEngine(outs[1])
        fb(i) == TranslateWithEngine(outs[i + 1])
        \* the fallbacks the loop reaches: it stops at the first accepted
        \* result or the first exception
        Stops(i) == fb(i).raised \/ FallbackAccepted(txt, fb(i))
        stopAt == IF \E i \in 1..Len(fallbacks) : Stops(i)
                  THEN CHOOSE i \in 1..Len(fallbacks) :
                          Stops(i) /\ \A j \in 1..(i - 1) : ~Stops(j)
                  ELSE 0
        called(n) == <<engine>> \o SubSeq(fallbacks, 1, n)
    IN  IF txt = ""
        THEN [ret |-> txt, cache |-> c, calls |-> <<>>, raised |-> FALSE, hit |-> FALSE]
        ELSE IF key \in DOMAIN c
        THEN [ret |-> c[key], cache |-> c, calls |-> <<>>, raised |-> FALSE, hit |-> TRUE]
        ELSE IF outs = <<>>   \* no answers given: only report that a backend is called
        THEN [ret |-> "", cache |-> c, calls |-> <<engine>>, raised |-> FALSE, hit |-> FALSE]
        ELSE IF out.raised
        THEN [ret |-> "", cache |-> c, calls |-> <<engine>>, raised |-> TRUE, hit |-> FALSE]
        ELSE IF out.some /\ out.val # "" /\ (src = tgt \/ Strip(out.val) # Strip(txt))
        THEN [ret |-> out.val, cache |-> DictSet(c, key, out.val),
              calls |-> <<engine>>, raised |-> FALSE, hit |-> FALSE]
        ELSE IF src # tgt /\ stopAt # 0
        THEN IF fb(stopAt).raised
             THEN [ret |-> "", cache |-> c, calls |-> called(stopAt),
                   raised |-> TRUE, hit |-> FALSE]
             ELSE [ret |-> fb(stopAt).val, cache |-> DictSet(c, key, fb(stopAt).val),
                   calls |-> called(stopAt), raised |-> FALSE, hit |-> FALSE]
        ELSE [ret |-> txt, cache |-> DictSet(c, key, txt),
              calls |-> IF src # tgt THEN called(Len(fallbacks)) ELSE <<engine>>,
              raised |-> FALSE, hit |-> FALSE]

\* configuration.py: SOURCE_LANG, TRANSLATOR_ENGINE
SOURCE_LANG == "en"
TRANSLATOR_ENGINE == "google"

\* The values of configuration.TRANSLATOR_FALLBACK_ENGINES explored (the
\* default is the empty list).
FallbackConfigs == {<<>>, <<"bing">>, <<"bing", "deepl">>}

\* Arguments of the translate calls explored.
TextInputs == {"", " Hi "}
TargetInputs == {"FR"}
SourceInputs == {"", "Fr"}

\* What a backend can do with txt: raise, return a non-str, a blank str,
\* txt itself, txt with padding, or another text.
BackendOutcomes(txt) ==
    {Raises, NonStr, Str(" "), Str(txt), Str(txt \o " "), Str("Salut")}

\* What the backends would answer to one translate call, one outcome for the
\* primary engine and one per fallback; none when the call reaches no backend
\* (blank text, or the key is cached).
BackendAnswers(c, fallbacks, text, target_lang, source_lang) ==
    IF Translate(c, SOURCE_LANG, TRANSLATOR_ENGINE, fallbacks,
                 text, target_lang, source_lang, <<>>).calls = <<>>
    THEN {<<>>}
    ELSE [1..(1 + Len(fallbacks)) -> BackendOutcomes(Strip(text))]

\* The outcomes of the backend calls a translate call made: a backend that
\* is not called has no outcome.
Consulted(outs, r) == SubSeq(outs, 1, Len(r.calls))

\* History of returned values: h with k |-> v added.
Remember(h, k, v) == [x \in (DOMAIN h) \cup {k} |-> IF x = k THEN v ELSE h[x]]

\* No call yet.
NoTrCall ==
    [text |-> "", target_lang |-> "", source_lang |-> "", outs |-> <<>>,
     ret |-> "", calls |-> <<>>, raised |-> FALSE, hit |-> FALSE,
     done |-> FALSE, seen |-> FALSE, first |-> ""]

\* Translator.__init__: an empty cache, the configured fallback engines.
TranslatorInit ==
    /\ cache = <<>>
    /\ fallback_engines \in FallbackConfigs
    /\ trCall = NoTrCall
    /\ firstRet = <<>>

\* A translator that is never called, with the default configuration.
TranslatorIdle ==
    /\ cache = <<>>
    /\ fallback_engines = <<>>
    /\ trCall = NoTrCall
    /\ firstRet = <<>>

\* One call translator.translate(text, target_lang, source_lang=source_lang).
TranslateCall ==
    \E text \in TextInputs, target_lang \in TargetInputs, source_lang \in SourceInputs :
    \E outs \in BackendAnswers(cache, fallback_engines, text, target_lang, source_lang) :
        LET r == Translate(cache, SOURCE_LANG, TRANSLATOR_ENGINE, fallback_engines,
                           text, target_lang, source_lang, outs)
            triple == <<source_lang, text, target_lang>>
            seen == triple \in DOMAIN firstRet
        IN  /\ cache' = r.cache
            /\ trCall' = [text |-> text, target_lang |-> target_lang,
                          source_lang |-> source_lang, outs |-> Consulted(outs, r),
                          ret |-> r.ret, calls |-> r.calls, raised |-> r.raised,
                          hit |-> r.hit, done |-> TRUE, seen |-> seen,
                          first |-> IF seen THEN firstRet[triple] ELSE r.ret]
            /\ firstRet' = IF seen \/ r.raised THEN firstRet
                           ELSE Remember(firstRet, triple, r.ret)
            /\ UNCHANGED <<fallback_engines, clsVars, rwVars, docVars>>

-----------------------------------------------------------------------------
(* Label text helpers and the language classifier                          *)

\* Position of the first ">" of s after its first character, 0 if none.
RECURSIVE TagEndFrom(_, _)
TagEndFrom(s, i) ==
    IF i > Len(s) THEN 0
    ELSE IF CharAt(s, i) = ">" THEN i
    ELSE TagEndFrom(s, i + 1)

\* _strip_html_tags: re.sub(r"<[^>]+>", " ", s)
RECURSIVE StripHtmlTags(_)
StripHtmlTags(s) ==
    IF Len(s) = 0 THEN ""
    ELSE IF CharAt(s, 1) = "<" /\ TagEndFrom(s, 2) > 2
         THEN " " \o StripHtmlTags(Drop(s, TagEndFrom(s, 2)))
    ELSE CharAt(s, 1) \o StripHtmlTags(Tail(s))

\* html.unescape, for the character references of the texts explored:
\* &amp; &lt; &gt; and the numeric reference &#32; (a space).
RECURSIVE HtmlUnescape(_)
HtmlUnescape(s) ==
    IF Len(s) = 0 THEN ""
    ELSE IF StartsWith(s, "&amp;") THEN "&" \o HtmlUnescape(Drop(s, 5))
    ELSE IF StartsWith(s, "&lt;") THEN "<" \o HtmlUnescape(Drop(s, 4))
    ELSE IF StartsWith(s, "&gt;") THEN ">" \o HtmlUnescape(Drop(s, 4))
    ELSE IF StartsWith(s, "&#32;") THEN " " \o HtmlUnescape(Drop(s, 5))
    ELSE CharAt(s, 1) \o HtmlUnescape(Tail(s))

\* decode_label_text
DecodeLabelText(raw) == Strip(HtmlUnescape(raw))

\* Snippets shorter than this are discarded; at most SAMPLE_CAP snippets are
\* scored, each weighing at most WEIGHT_CAP.
MIN_SAMPLE_LEN == 3
SAMPLE_CAP == 200
WEIGHT_CAP == 500

Min(a, b) == IF a <= b THEN a ELSE b

\* allowed = {l.lower() for l in allowed_langs if l}
AllowedSet(allowed_langs) ==
    {Lower(allowed_langs[i]) : i \in {j \in DOMAIN allowed_langs : allowed_langs[j] # ""}}

\* samples: the cleaned snippets of at least MIN_SAMPLE_LEN characters
CleanSample(t) == Strip(StripHtmlTags(DecodeLabelText(t)))
UsableText(t) == t # "" /\ Len(CleanSample(t)) >= MIN_SAMPLE_LEN
RECURSIVE Samples(_)
Samples(texts) ==
    IF texts = <<>> THEN <<>>
    ELSE (IF UsableText(Head(texts)) THEN <<CleanSample(Head(texts))>> ELSE <<>>)
         \o Samples(Tail(texts))

\* normalize_code
NormalizeCode(code) ==
    LET c == Lower(code)
    IN  IF c \in {"zh-cn", "zh-tw", "zh-hans", "zh-hant"} THEN "zh"
        ELSE IF c \in {"pt-br", "pt-pt"} THEN "pt"
        ELSE c

\* What detect_langs does with one sample: it raises, returns no guess, or
\* its most probable guess is lang with probability prob (in percent).
DetectRaises == [kind |-> "raise", lang |-> "", prob |-> 0]
DetectNothing == [kind |-> "empty", lang |-> "", prob |-> 0]
Guess(l, p) == [kind |-> "guess", lang |-> l, prob |-> p]

\* The loop over samples[:200]: scores after the samples from index i on.
RECURSIVE ScoreFrom(_, _, _, _)
ScoreFrom(samples, answers, i, scores) ==
    IF i > Min(Len(samples), SAMPLE_CAP) THEN scores
    ELSE LET a == answers[i]
             weight == Min(Len(samples[i]), WEIGHT_CAP)
             pred == NormalizeCode(a.lang)
         IN  IF a.kind # "guess" THEN ScoreFrom(samples, answers, i + 1, scores)
             ELSE IF pred \in DOMAIN scores
             THEN ScoreFrom(samples, answers, i + 1,
                            [scores EXCEPT ![pred] = @ + a.prob * weight])
             ELSE ScoreFrom(samples, answers, i + 1, scores)

\* Faulty variant: the fallback returns the default without looking at the allow-list.
FallbackLangDefaultOnly(default_lang, allowed, order) == Lower(default_lang)

\* default_lang.lower() if default_lang.lower() in allowed else next(iter(allowed)),
\* where order lists the set allowed as this process iterates over it.
FallbackLang(default_lang, allowed, order) ==
    IF Lower(default_lang) \in allowed THEN Lower(default_lang) ELSE order[1]

\* max(scores.items(), key=lambda kv: kv[1])[0]: the first maximal entry in
\* the dict's order, which is the iteration order of the set allowed.
BestLang(scores, order) ==
    LET isMax(i) == \A j \in DOMAIN order : scores[order[j]] <= scores[order[i]]
    IN  order[CHOOSE i \in DOMAIN order : isMax(i) /\ \A j \in 1..(i - 1) : ~isMax(j)]

\* detect_primary_language_allowed(texts, allowed_langs, default_lang), given
\* whether langdetect can be imported, what it answers for each sample, and
\* the iteration order of the set allowed.
DetectPrimaryLanguageAllowed(texts, allowed_langs, default_lang, available, answers, order) ==
    LET allowed == AllowedSet(allowed_langs)
        samples == Samples(texts)
        scores == ScoreFrom(samples, answers, 1, [a \in allowed |-> 0])
    IN  IF allowed = {} THEN Lower(default_lang)
        ELSE IF samples = <<>> THEN FallbackLang(default_lang, allowed, order)
        ELSE IF ~available THEN FallbackLang(default_lang, allowed, order)
        ELSE IF \A a \in allowed : scores[a] <= 0
             THEN FallbackLang(default_lang, allowed, order)
        ELSE BestLang(scores, order)

\* The orders in which a set can be iterated.
Orders(S) ==
    {o \in [1..Cardinality(S) -> S] : \A i, j \in 1..Cardinality(S) : o[i] = o[j] => i = j}

\* The classifier calls explored.
ClsTextLists ==
    {<<>>, <<"", "ab">>, <<"&lt;i&gt;">>, <<"<b>Bonjour</b>">>, <<"Hello", "Salut">>}
ClsAllowedLists == {<<"en", "fr">>, <<"EN", "de">>, <<"", "fr">>, <<"">>, <<"pt", "zh", "en">>}
ClsDefaults == {"en", "EN", "it"}
DetectorOutcomes ==
    {DetectRaises, DetectNothing, Guess("en", 100), Guess("fr", 100), Guess("fr", 0),
     Guess("pt-br", 50), Guess("xx", 100)}

ClassifierPending == [done |-> FALSE, lang |-> ""]

\* The classifier is not used.
ClassifierIdle ==
    /\ clsIn = [texts |-> <<>>, allowed_langs |-> <<>>, default_lang |-> "",
                available |-> FALSE, answers |-> <<>>, order |-> <<>>]
    /\ clsOut = ClassifierPending

\* A call of the classifier and its environment.
ClassifierInit ==
    /\ \E texts \in ClsTextLists, allowed_langs \in ClsAllowedLists,
          default_lang \in ClsDefaults, available \in BOOLEAN :
       \E answers \in [1..Len(Samples(texts)) -> DetectorOutcomes],
          order \in Orders(AllowedSet(allowed_langs)) :
          clsIn = [texts |-> texts, allowed_langs |-> allowed_langs,
                   default_lang |-> default_lang, available |-> available,
                   answers |-> answers, order |-> order]
    /\ clsOut = ClassifierPending

\* detect_primary_language_allowed runs.
Classify ==
    /\ ~clsOut.done
    /\ clsOut' = [done |-> TRUE,
                  lang |-> DetectPrimaryLanguageAllowed(
                               clsIn.texts, clsIn.allowed_langs, clsIn.default_lang,
                               clsIn.available, clsIn.answers, clsIn.order)]
    /\ UNCHANGED <<trVars, clsIn, rwVars, docVars>>



-----------------------------------------------------------------------------
(* ElementTree pages                                                       *)

\* An element.  A tree is a sequence of elements; an element's identity is
\* its index, and children lists the identities of its child elements.
Elem(tag, attrib, children) == [tag |-> tag, attrib |-> attrib, children |-> children]

\* An empty attrib dict.
NoAttrib == <<>>

\* attrib.get(k, default)
Get(attrib, k, default) == IF k \in DOMAIN attrib THEN attrib[k] ELSE default

\* elem.set(k, v)
AttrSet(attrib, k, v) == [x \in (DOMAIN attrib) \cup {k} |-> IF x = k THEN v ELSE attrib[x]]

\* del attrib[k] for each k of ks that attrib has
AttrDel(attrib, ks) == [x \in (DOMAIN attrib) \ ks |-> attrib[x]]

\* `ch in s` for a character ch
RECURSIVE Contains(_, _)
Contains(s, ch) ==
    IF Len(s) = 0 THEN FALSE
    ELSE IF CharAt(s, 1) = ch THEN TRUE
    ELSE Contains(Tail(s), ch)

\* tag.split('}', 1)[-1]
RECURSIVE AfterBrace(_)
AfterBrace(tag) ==
    IF CharAt(tag, 1) = "}" THEN Tail(tag) ELSE AfterBrace(Tail(tag))

\* _localname
LocalName(tag) == IF Contains(tag, "}") THEN AfterBrace(tag) ELSE tag

\* root.iter(): the elements below and including n, in document order.
RECURSIVE Iter(_, _)
RECURSIVE IterEach(_, _)
Iter(t, n) == <<n>> \o IterEach(t, t[n].children)
IterEach(t, ns) ==
    IF ns = <<>> THEN <<>> ELSE Iter(t, Head(ns)) \o IterEach(t, Tail(ns))

Range(s) == {s[i] : i \in DOMAIN s}

\* list.index(x), 0 when x is not in the list (Python raises ValueError)
IndexOf(s, x) ==
    IF x \in Range(s) THEN CHOOSE i \in DOMAIN s : s[i] = x /\ \A j \in 1..(i - 1) : s[j] # x
    ELSE 0

\* build_parent_map: {child: parent for parent in root.iter() for child in parent};
\* a later parent in document order replaces an earlier one.
BuildParentMap(t, root) ==
    LET it == Iter(t, root)
        parentsOf(c) == {i \in DOMAIN it : c \in Range(t[it[i]].children)}
        kids == UNION {Range(t[it[i]].children) : i \in DOMAIN it}
    IN  [c \in kids |-> it[CHOOSE i \in parentsOf(c) : \A j \in parentsOf(c) : j <= i]]

\* find_label_text: the text of 'value' if it is not blank, else of 'label'.
FindLabelText(attrib) ==
    IF "value" \in DOMAIN attrib /\ Strip(attrib["value"]) # ""
    THEN [found |-> TRUE, name |-> "value", text |-> attrib["value"]]
    ELSE IF "label" \in DOMAIN attrib /\ Strip(attrib["label"]) # ""
    THEN [found |-> TRUE, name |-> "label", text |-> attrib["label"]]
    ELSE [found |-> FALSE, name |-> "", text |-> ""]

\* collect_diagram_texts keeps at most this many texts.
TEXT_SAMPLE_CAP == 100

\* collect_diagram_texts
RECURSIVE CollectFrom(_, _, _)
CollectFrom(t, it, texts) ==
    IF it = <<>> \/ Len(texts) >= TEXT_SAMPLE_CAP THEN texts
    ELSE LET pair == FindLabelText(t[Head(it)].attrib)
         IN  CollectFrom(t, Tail(it),
                         IF pair.found THEN Append(texts, DecodeLabelText(pair.text))
                         ELSE texts)
CollectDiagramTexts(t, container) == CollectFrom(t, Iter(t, container), <<>>)

\* get_inner_mxcell_of_wrapper: the first mxCell child, 0 for None
GetInnerMxCellOfWrapper(t, wrapper) ==
    LET ch == t[wrapper].children
        isCell(i) == LocalName(t[ch[i]].tag) = "mxCell"
    IN  IF LocalName(t[wrapper].tag) # "UserObject" THEN 0
        ELSE IF \E i \in DOMAIN ch : isCell(i)
        THEN ch[CHOOSE i \in DOMAIN ch : isCell(i) /\ \A j \in 1..(i - 1) : ~isCell(j)]
        ELSE 0

\* set_base_label_and_clear_inner
SetBaseLabelAndClearInner(t, container, base_text) ==
    LET t1 == [t EXCEPT ![container].attrib = AttrSet(@, "label", base_text)]
        inner == GetInnerMxCellOfWrapper(t1, container)
    IN  IF LocalName(t1[container].tag) = "UserObject" /\ inner # 0
        THEN [t1 EXCEPT ![inner].attrib = AttrDel(@, {"value", "label"})]
        ELSE t1

\* Faulty variant: the clone keeps the visible text of the cell.
InnerAttribKeepsText(attrib) == AttrDel(attrib, {"id"})

\* The attributes of the clone that becomes the inner mxCell.
InnerAttrib(attrib) == AttrDel(attrib, {"id", "value", "label"})

\* Result of the resolver when it leaves the tree alone and returns ret.
Unwrapped(t, pm, ret) ==
    [tree |-> t, pm |-> pm, ret |-> ret, wrapped |-> FALSE, raised |-> FALSE,
     cell |-> 0, inner |-> 0, parent |-> 0, idx |-> 0]

\* ensure_userobject_wrapper(cell, parent_map): the tree and the parent map
\* afterwards and the element returned.  The new inner cell and the wrapper
\* are the next two elements of t; the cell stays in t, detached from its
\* parent but with its attributes and children.
EnsureUserObjectWrapper(t, pm, cell) ==
    LET hasParent == cell \in DOMAIN pm
        parent == pm[cell]
        a == t[cell].attrib
        old_id == Get(a, "id", "")
        value == Get(a, "value", "")
        label == Get(a, "label", "")
        visible_text == IF Strip(value) # "" THEN value ELSE label
        inner == Len(t) + 1
        wrapper == Len(t) + 2
        innerEl == Elem("mxCell", InnerAttrib(a), t[cell].children)
        wAttr0 == IF old_id # "" THEN AttrSet(NoAttrib, "id", old_id) ELSE NoAttrib
        wAttr == IF visible_text # "" THEN AttrSet(wAttr0, "label", visible_text) ELSE wAttr0
        wrapperEl == Elem("UserObject", wAttr, <<inner>>)
        kids == t[parent].children
        idx == IndexOf(kids, cell)
        newKids == SubSeq(kids, 1, idx - 1) \o <<wrapper>> \o SubSeq(kids, idx + 1, Len(kids))
    IN  IF LocalName(t[cell].tag) # "mxCell" THEN Unwrapped(t, pm, cell)
        ELSE IF hasParent /\ LocalName(t[parent].tag) = "UserObject"
        THEN Unwrapped(t, pm, parent)
        ELSE IF ~hasParent THEN Unwrapped(t, pm, cell)
        ELSE IF idx = 0
        THEN [Unwrapped(t, pm, cell) EXCEPT !.raised = TRUE]
        ELSE [tree |-> [Append(Append(t, innerEl), wrapperEl) EXCEPT ![parent].children = newKids],
              pm |-> [x \in (DOMAIN pm) \cup {inner, wrapper} |->
                        IF x = inner THEN wrapper
                        ELSE IF x = wrapper THEN parent
                        ELSE pm[x]],
              ret |-> wrapper, wrapped |-> TRUE, raised |-> FALSE,
              cell |-> cell, inner |-> inner, parent |-> parent, idx |-> idx]

-----------------------------------------------------------------------------
(* Label rewriter                                                          *)

\* WRITE_EN_KEYS = getattr(configuration, "WRITE_EN_KEYS", True);
\* configuration.py does not define it.
WRITE_EN_KEYS == TRUE

\* The deterministic translation backends a page is processed with: "down"
\* always raises; "dict" is a word list that returns a text it does not know
\* unchanged.
BackendModels == {"down", "dict"}
Dictionary ==
    {<<"fr", "Bonjour", "en", "Hello">>, <<"fr", "Bonjour", "de", "Hallo">>,
     <<"fr", "piece", "en", "coin">>, <<"fr", "piece", "de", "Muenze">>,
     <<"fr", "coin", "en", "corner">>, <<"fr", "coin", "de", "Ecke">>,
     <<"en", "Hello", "fr", "Bonjour">>, <<"en", "Hello", "de", "Hallo">>,
     <<"de", "Hallo", "en", "Hello">>, <<"de", "Hallo", "fr", "Bonjour">>}
BackendAnswer(bk, src, txt, tgt) ==
    IF bk = "down" THEN Raises
    ELSE IF \E e \in Dictionary : e[1] = src /\ e[2] = txt /\ e[3] = tgt
    THEN Str((CHOOSE e \in Dictionary : e[1] = src /\ e[2] = txt /\ e[3] = tgt)[4])
    ELSE Str(txt)

\* translator.translate(text, target_lang, source_lang=source_lang) with
\* backend bk as the primary engine and no fallback engines configured.
TranslateVia(c, bk, text, target_lang, source_lang) ==
    Translate(c, SOURCE_LANG, TRANSLATOR_ENGINE, <<>>, text, target_lang, source_lang,
              <<BackendAnswer(bk,
                              Lower(IF source_lang # "" THEN source_lang ELSE SOURCE_LANG),
                              Strip(text), Lower(target_lang))>>)

\* Faulty variant: a key is written whether or not it exists, whatever
\* overwrite says.
WriteKeyAlways(s, key, text, overwrite) ==
    [s EXCEPT !.attrib = IF ~Contains(key, "-") THEN AttrSet(@, key, text) ELSE @,
              !.written = @ + 1]

\* Faulty variant: a key is written only when it is absent, whatever overwrite says.
WriteKeyNeverOverwrites(s, key, text, overwrite) ==
    IF key \notin DOMAIN s.attrib
    THEN [s EXCEPT !.attrib = IF ~Contains(key, "-") THEN AttrSet(@, key, text) ELSE @,
                   !.written = @ + 1]
    ELSE s

\* One pass of the body of `for key in (...)`, on s = [attrib, written, cache]:
\*     if overwrite_existing or (key not in container.attrib):
\*         if not("-" in key): container.set(key, text)
\*         written += 1
WriteKey(s, key, text, overwrite) ==
    IF overwrite \/ key \notin DOMAIN s.attrib
    THEN [s EXCEPT !.attrib = IF ~Contains(key, "-") THEN AttrSet(@, key, text) ELSE @,
                   !.written = @ + 1]
    ELSE s

\* for key in (f"label_{code}", f"label-{code}"): ...
WriteKeyPair(s, code, text, overwrite) ==
    WriteKey(WriteKey(s, "label_" \o code, text, overwrite), "label-" \o code, text, overwrite)

\* s after translator.translate returned tr and the pair of keys for lang
\* was written with its result.
WriteTranslation(s, lang, tr, overwrite) ==
    WriteKeyPair([s EXCEPT !.cache = tr.cache], lang, tr.ret, overwrite)

\* The loop over target_langs from index i on, on s = [attrib, written, cache].
RECURSIVE TranslateOthers(_, _, _, _, _, _, _)
TranslateOthers(s, target_langs, i, original_text, primary, overwrite, bk) ==
    IF i > Len(target_langs) THEN s
    ELSE IF target_langs[i] = "en" \/ target_langs[i] = primary
    THEN TranslateOthers(s, target_langs, i + 1, original_text, primary, overwrite, bk)
    ELSE TranslateOthers(
             WriteTranslation(s, target_langs[i],
                              TranslateVia(s.cache, bk, original_text, target_langs[i], primary),
                              overwrite),
             target_langs, i + 1, original_text, primary, overwrite, bk)

\* The container translate_and_apply_for_element writes on.
ResolveContainer(t, pm, elem) ==
    IF LocalName(t[elem].tag) = "mxCell" THEN EnsureUserObjectWrapper(t, pm, elem)
    ELSE IF /\ LocalName(t[elem].tag) # "UserObject"
            /\ elem \in DOMAIN pm
            /\ LocalName(t[pm[elem]].tag) = "UserObject"
    THEN Unwrapped(t, pm, pm[elem])
    ELSE Unwrapped(t, pm, elem)

\* The call's result when it returns 0 at once.
NotTextBearing(t, pm, c, elem) ==
    [tree |-> t, pm |-> pm, cache |-> c, written |-> 0, elem |-> elem, text |-> FALSE,
     raised |-> FALSE, container |-> 0, original_text |-> "", before |-> NoAttrib,
     existed |-> FALSE, res |-> Unwrapped(<<>>, <<>>, elem)]

\* target_langs = [lc.lower() for lc in langs]
TargetLangs(langs) == [i \in DOMAIN langs |-> Lower(langs[i])]

\* has_en = ("en" in target_langs)
HasEn(langs) == \E i \in DOMAIN langs : Lower(langs[i]) = "en"

\* english_text = original_text if primary_lang == "en"
\*                else translator.translate(original_text, "en", source_lang=primary_lang)
EnglishText(c, bk, original_text, primary) ==
    IF primary = "en" THEN [ret |-> original_text, cache |-> c]
    ELSE TranslateVia(c, bk, original_text, "en", primary)

\* The keys written when 'en' is requested: label_en / label-en if
\* WRITE_EN_KEYS, then the pair for the primary language if it is not English.
EnglishBranchKeys(s, english_text, original_text, primary, overwrite) ==
    LET s1 == IF WRITE_EN_KEYS THEN WriteKeyPair(s, "en", english_text, overwrite) ELSE s
    IN  IF primary # "en" THEN WriteKeyPair(s1, primary, original_text, overwrite) ELSE s1

\* The call's result once the base label is decided: t2 is the tree after
\* it, s0 = [attrib, written, cache] the container's state before the keys.
WriteKeys(res, t2, s0, en, elem, original_text, langs, primary, overwrite, bk) ==
    LET s == TranslateOthers(
                 IF HasEn(langs)
                 THEN EnglishBranchKeys(s0, en.ret, original_text, primary, overwrite)
                 ELSE s0,
                 TargetLangs(langs), 1, original_text, primary, overwrite, bk)
    IN  [tree |-> [t2 EXCEPT ![res.ret].attrib = s.attrib],
         pm |-> res.pm, cache |-> s.cache, written |-> s.written,
         elem |-> elem, text |-> TRUE, raised |-> FALSE,
         container |-> res.ret, original_text |-> original_text,
         before |-> res.tree[res.ret].attrib, existed |-> ~res.wrapped,
         res |-> [res EXCEPT !.tree = <<>>, !.pm = <<>>]]

\* The base label: with base_text the text to show,
\*     if overwrite_existing or container.get("label", "") != base_text:
\*         set_base_label_and_clear_inner(container, base_text); written += 1
WriteBase(res, en, base_text, elem, original_text, langs, primary, overwrite, bk) ==
    IF overwrite \/ Get(res.tree[res.ret].attrib, "label", "") # base_text
    THEN WriteKeys(res, SetBaseLabelAndClearInner(res.tree, res.ret, base_text),
                   [attrib |-> AttrSet(res.tree[res.ret].attrib, "label", base_text),
                    written |-> 1, cache |-> en.cache],
                   en, elem, original_text, langs, primary, overwrite, bk)
    ELSE WriteKeys(res, res.tree,
                   [attrib |-> res.tree[res.ret].attrib, written |-> 0, cache |-> en.cache],
                   en, elem, original_text, langs, primary, overwrite, bk)

\* The call from the resolved container on: en is the English text (and the
\* cache after obtaining it) when 'en' is requested.  list(parent).index(cell)
\* raising leaves the cache c of the call's start.
WriteOnContainer(res, c, en, elem, original_text, langs, primary, overwrite, bk) ==
    IF res.raised
    THEN [NotTextBearing(res.tree, res.pm, c, elem) EXCEPT !.raised = TRUE, !.text = TRUE]
    ELSE WriteBase(res, en, IF HasEn(langs) THEN en.ret ELSE original_text,
                   elem, original_text, langs, primary, overwrite, bk)

\* The call for an element whose visible text decodes to original_text.
ApplyToText(t, pm, c, elem, original_text, langs, primary, overwrite, bk) ==
    WriteOnContainer(ResolveContainer(t, pm, elem), c,
                     IF HasEn(langs) THEN EnglishText(c, bk, original_text, primary)
                     ELSE [ret |-> original_text, cache |-> c],
                     elem, original_text, langs, primary, overwrite, bk)

\* translate_and_apply_for_element(elem, translator, parent_map, langs,
\* primary_lang, english_in_langs, overwrite_existing) on tree t, parent map pm
\* and translator cache c.  Besides the state afterwards and the count
\* returned (written), the result reports the container, its attributes when
\* the resolver returned it (before; existed tells whether it was in the tree
\* when the call began) and what the resolver did (res).
TranslateAndApplyForElement(t, pm, c, elem, langs, primary, overwrite, bk) ==
    IF ~FindLabelText(t[elem].attrib).found
    THEN NotTextBearing(t, pm, c, elem)
    ELSE IF DecodeLabelText(FindLabelText(t[elem].attrib).text) = ""
    THEN NotTextBearing(t, pm, c, elem)
    ELSE ApplyToText(t, pm, c, elem, DecodeLabelText(FindLabelText(t[elem].attrib).text),
                     langs, primary, overwrite, bk)

-----------------------------------------------------------------------------
(* One page: process_diagram_xml                                           *)

\* How many times a page is run through process_diagram_xml.
MaxRuns == 2

\* An element that is no longer part of the document.
Gone == Elem("", NoAttrib, <<>>)

\* ET.fromstring(ET.tostring(root)): the elements reachable from the root
\* survive, the others are gone.
Reparse(t, root) ==
    [n \in DOMAIN t |-> IF n \in Range(Iter(t, root)) THEN t[n] ELSE Gone]

\* The root element of a page is its first element.
PageRoot == 1

\* The pages explored, for a visible text T.
TreeFlat(T) ==
    << Elem("mxGraphModel", NoAttrib, <<2>>),
       Elem("root", NoAttrib, <<3, 4, 5>>),
       Elem("mxCell", [id |-> "0"], <<>>),
       Elem("mxCell", [id |-> "2", value |-> T, style |-> "rounded", parent |-> "0"], <<6>>),
       Elem("mxCell", [id |-> "3", value |-> " ", label |-> "Bonjour", parent |-> "0"], <<>>),
       Elem("mxGeometry", [x |-> "10"], <<>>) >>
TreeNested(T) ==
    << Elem("mxGraphModel", NoAttrib, <<2>>),
       Elem("root", NoAttrib, <<3>>),
       Elem("mxCell", [id |-> "2", value |-> T], <<4, 5>>),
       Elem("mxGeometry", [x |-> "10"], <<>>),
       Elem("mxCell", [id |-> "3", value |-> "Bonjour"], <<>>) >>
TreeWrapped(T) ==
    << Elem("mxGraphModel", NoAttrib, <<2>>),
       Elem("root", NoAttrib, <<3>>),
       Elem("UserObject", [id |-> "2", label |-> T, label_de |-> "alt"], <<4>>),
       Elem("mxCell", [style |-> "rounded"], <<5>>),
       Elem("mxGeometry", [x |-> "10"], <<>>) >>
TreeRootCell(T) ==
    << Elem("mxCell", [id |-> "r", value |-> T], <<2>>),
       Elem("mxCell", [id |-> "2", value |-> "Bonjour"], <<>>) >>
TreeObject(T) ==
    << Elem("mxGraphModel", NoAttrib, <<2>>),
       Elem("root", NoAttrib, <<3>>),
       Elem("object", [id |-> "2", label |-> T], <<4>>),
       Elem("{http://example.org/ns}mxCell", [style |-> "rounded"], <<>>) >>
PageTexts == {"Bonjour", "piece", " Hello&#32;"}
PageTrees ==
    UNION {{TreeFlat(T), TreeNested(T), TreeWrapped(T), TreeRootCell(T), TreeObject(T)} :
           T \in PageTexts}

\* The requested languages explored (server.py passes configuration.LANGUAGES
\* as written, main() lower-cases them).
PageLanguages == {<<"en", "fr", "de">>, <<"fr", "de">>, <<"EN", "de", "DE">>}

\* What detect_langs answers for the samples of a page.
PageDetectorOutcomes == {DetectRaises, Guess("en", 100), Guess("fr", 100)}

NoRwCall ==
    [done |-> FALSE, run |-> 0, elem |-> 0, text |-> FALSE, container |-> 0, written |-> 0,
     original_text |-> "", before |-> NoAttrib, existed |-> FALSE,
     res |-> Unwrapped(<<>>, <<>>, 0), treeBefore |-> <<>>]

\* No page is processed.
RewriterIdle ==
    /\ tree = <<>>
    /\ parent_map = <<>>
    /\ elems = <<>>
    /\ pos = 0
    /\ primary_lang = ""
    /\ page = [languages |-> <<>>, overwrite |-> FALSE, backend |-> "down"]
    /\ run = 0
    /\ firstRun = [done |-> FALSE, tree |-> <<>>, primary_lang |-> ""]
    /\ rwCall = NoRwCall

\* A page, the requested languages, the overwrite setting and a backend.
RewriterInit ==
    /\ tree \in PageTrees
    /\ parent_map = <<>>
    /\ elems = <<>>
    /\ pos = 0
    /\ primary_lang = ""
    /\ page \in [languages : PageLanguages, overwrite : BOOLEAN, backend : BackendModels]
    /\ run = 0
    /\ firstRun = [done |-> FALSE, tree |-> <<>>, primary_lang |-> ""]
    /\ rwCall = NoRwCall
    /\ cache = <<>>
    /\ fallback_engines = <<>>
    /\ trCall = NoTrCall
    /\ firstRet = <<>>

\* process_diagram_xml up to the loop: parse the page, build the parent map,
\* detect the primary language and take the snapshot of the elements.
StartPage ==
    /\ pos = 0
    /\ run < MaxRuns
    /\ LET t == Reparse(tree, PageRoot)
           texts == CollectDiagramTexts(t, PageRoot)
       IN  /\ tree' = t
           /\ parent_map' = BuildParentMap(t, PageRoot)
           /\ \E available \in BOOLEAN,
                 answers \in [1..Len(Samples(texts)) -> PageDetectorOutcomes],
                 order \in Orders(AllowedSet(page.languages)) :
                 primary_lang' = DetectPrimaryLanguageAllowed(
                                     texts, page.languages, Lower(SOURCE_LANG),
                                     available, answers, order)
           /\ elems' = Iter(t, PageRoot)
    /\ pos' = 1
    /\ run' = run + 1
    /\ UNCHANGED <<trVars, clsVars, page, firstRun, rwCall, docVars>>

\* The state after translate_and_apply_for_element ended as r.
ElementDone(r) ==
    /\ tree' = r.tree
    /\ parent_map' = r.pm
    /\ cache' = r.cache
    /\ pos' = IF r.raised THEN -1 ELSE pos + 1
    /\ rwCall' = [done |-> TRUE, run |-> run, elem |-> r.elem, text |-> r.text,
                  container |-> r.container, written |-> r.written,
                  original_text |-> r.original_text, before |-> r.before,
                  existed |-> r.existed, res |-> r.res, treeBefore |-> tree]

\* One iteration of the loop: translate_and_apply_for_element on the next
\* element of the snapshot.  An exception ends the run (pos = -1).
ApplyElement ==
    /\ pos >= 1
    /\ pos <= Len(elems)
    /\ ElementDone(TranslateAndApplyForElement(tree, parent_map, cache, elems[pos],
                                               page.languages, primary_lang,
                                               page.overwrite, page.backend))
    /\ UNCHANGED <<fallback_engines, trCall, firstRet, clsVars, elems, primary_lang,
                   page, run, firstRun, docVars>>

\* The end of process_diagram_xml: the tree is serialised and returned.
FinishPage ==
    /\ pos = Len(elems) + 1
    /\ pos' = 0
    /\ tree' = Reparse(tree, PageRoot)
    /\ firstRun' = IF firstRun.done THEN firstRun
                   ELSE [done |-> TRUE, tree |-> Reparse(tree, PageRoot),
                         primary_lang |-> primary_lang]
    /\ UNCHANGED <<trVars, clsVars, parent_map, elems, primary_lang, page, run, rwCall,
                   docVars>>

-----------------------------------------------------------------------------
(* The page codec and the document: process_drawio_file                    *)

\* The text of a <diagram> is [kind, tree]: "plain" is the XML text of the
\* page tree; "deflate" and "zlib" are base64 of that text compressed as raw
\* DEFLATE and with a zlib header; "junk" is a text that neither starts
\* with "<" nor is base64 of compressed data; "malformed" starts with "<" but
\* is not well-formed XML; "blank" is empty or white space.  An "inline"
\* <diagram> has the page as child elements, tree being the <diagram>
\* element's own subtree.
XmlText(t) == [kind |-> "plain", tree |-> t]
Deflated(t) == [kind |-> "deflate", tree |-> t]
ZlibFramed(t) == [kind |-> "zlib", tree |-> t]
Junk == [kind |-> "junk", tree |-> <<>>]
Malformed == [kind |-> "malformed", tree |-> <<>>]
Blank == [kind |-> "blank", tree |-> <<>>]
Inline(t) == [kind |-> "inline", tree |-> t]

\* is_compressed_diagram_text: not s.lstrip().startswith("<")
IsCompressedDiagramText(s) == s.kind \notin {"plain", "malformed"}

\* decompress_diagram_text: raw DEFLATE first, then zlib; the argument
\* itself on any exception.
DecompressDiagramText(s) ==
    IF s.kind = "deflate" THEN XmlText(s.tree)
    ELSE IF s.kind = "zlib" THEN XmlText(s.tree)
    ELSE s

\* compress_diagram_text: base64 of the raw DEFLATE of the text.
CompressDiagramText(xml) == [kind |-> "deflate", tree |-> xml.tree]

\* ET.fromstring(diagram_xml) returns a tree; it raises ParseError otherwise.
Parses(diagram_xml) == diagram_xml.kind = "plain"

\* The arguments process_drawio_file is run with: the requested languages,
\* overwrite_existing (configuration.OVERWRITE_EXISTING) and the backend.
DocLanguages == <<"en", "fr", "de">>
OVERWRITE_EXISTING == TRUE
DocBackend == "dict"

\* The loop over the snapshot of elements, from index i on, where r holds
\* the tree, the parent map and the cache so far: it ends with the snapshot
\* or when translate_and_apply_for_element raises.
RECURSIVE ApplyAll(_, _, _, _)
ApplyAll(r, snapshot, i, primary) ==
    IF r.raised \/ i > Len(snapshot) THEN r
    ELSE ApplyAll(TranslateAndApplyForElement(r.tree, r.pm, r.cache, snapshot[i],
                                              DocLanguages, primary, OVERWRITE_EXISTING,
                                              DocBackend),
                  snapshot, i + 1, primary)

\* The loop over all elements under the root of tree t.
ApplyToPage(t, c, primary) ==
    ApplyAll([tree |-> t, pm |-> BuildParentMap(t, PageRoot), cache |-> c, raised |-> FALSE],
             Iter(t, PageRoot), 1, primary)

\* The primary languages detect_primary_language_allowed may return for the
\* elements under root of tree t.
DetectablePrimaries(t, root) ==
    LET texts == CollectDiagramTexts(t, root)
    IN  {DetectPrimaryLanguageAllowed(texts, DocLanguages, Lower(SOURCE_LANG),
                                      available, answers, order) :
            available \in BOOLEAN,
            answers \in [1..Len(Samples(texts)) -> PageDetectorOutcomes],
            order \in Orders(AllowedSet(DocLanguages))}

\* xml_out = ET.tostring(inner_root, ...) after the loop ended as r.
ETToString(r) ==
    [raised |-> r.raised, xml_out |-> XmlText(Reparse(r.tree, PageRoot)), cache |-> r.cache]

\* process_diagram_xml(diagram_xml, translator, languages, overwrite) with
\* translator cache c, when the page is detected as primary.
ProcessDiagramXml(diagram_xml, c, primary) ==
    IF ~Parses(diagram_xml)
    THEN [raised |-> TRUE, xml_out |-> diagram_xml, cache |-> c]
    ELSE ETToString(ApplyToPage(diagram_xml.tree, c, primary))

\* Case 1 of the loop body: the <diagram> has child elements and is
\* rewritten in place.
StoreInline(r) == [diagram |-> Inline(r.tree), cache |-> r.cache, raised |-> r.raised]
ProcessInline(d, c, primary) == StoreInline(ApplyToPage(d.tree, c, primary))

\* Faulty variant: the rewritten page is stored as plain text whatever
\* write_uncompressed says.
StoreCompressedAsPlain(d, r, write_uncompressed) ==
    [diagram |-> IF r.raised THEN d ELSE r.xml_out, cache |-> r.cache, raised |-> r.raised]

\* Case 2 for a compressed text: r is what process_diagram_xml did with the
\* decompressed text.
StoreCompressed(d, r, write_uncompressed) ==
    [diagram |-> IF r.raised THEN d
                 ELSE IF write_uncompressed THEN r.xml_out
                 ELSE CompressDiagramText(r.xml_out),
     cache |-> r.cache, raised |-> r.raised]

\* Case 2 for a plain text.
StorePlain(d, r) ==
    [diagram |-> IF r.raised THEN d ELSE r.xml_out, cache |-> r.cache, raised |-> r.raised]

\* The body of the loop of process_drawio_file for <diagram> d.
ProcessDiagram(d, c, primary, write_uncompressed) ==
    IF d.kind = "inline" THEN ProcessInline(d, c, primary)
    ELSE IF d.kind = "blank" THEN [diagram |-> d, cache |-> c, raised |-> FALSE]
    ELSE IF IsCompressedDiagramText(d)
    THEN StoreCompressed(d, ProcessDiagramXml(DecompressDiagramText(d), c, primary),
                         write_uncompressed)
    ELSE StorePlain(d, ProcessDiagramXml(d, c, primary))

\* The primary languages the loop body may work with for <diagram> d ("" when
\* the classifier is not reached).
PagePrimaries(d) ==
    IF d.kind = "inline" THEN DetectablePrimaries(d.tree, PageRoot)
    ELSE IF d.kind = "blank" THEN {""}
    ELSE IF Parses(DecompressDiagramText(d))
    THEN DetectablePrimaries(DecompressDiagramText(d).tree, PageRoot)
    ELSE {""}

\* Faulty variant: an exception of a page is swallowed and the loop goes on.
AfterPageSwallowed(raised) == "running"

\* Where process_drawio_file stands after a pass of the loop body: nothing
\* in the function catches an exception.
AfterPage(raised) == IF raised THEN "aborted" ELSE "running"

\* How many <diagram> elements a document has at most.
MaxPages == 2

\* The pages of the documents explored.
DocText == "Bonjour"
TreeInline(T) ==
    << Elem("diagram", [id |-> "p1", name |-> "Page-1"], <<2>>),
       Elem("mxGraphModel", NoAttrib, <<3>>),
       Elem("root", NoAttrib, <<4, 5>>),
       Elem("mxCell", [id |-> "0"], <<>>),
       Elem("mxCell", [id |-> "2", value |-> T, parent |-> "0"], <<>>) >>
DiagramInputs ==
    {Inline(TreeInline(DocText)), XmlText(TreeFlat(DocText)), Deflated(TreeFlat(DocText)),
     ZlibFramed(TreeFlat(DocText)), Junk, Malformed, Blank}
DocumentInputs == UNION {[1..n -> DiagramInputs] : n \in 1..MaxPages}

\* The output path before the call: absent, or a file left by an earlier run.
OutfileAtStart == [exists |-> job.outfile_exists, writes |-> 0, pages |-> <<>>]

\* No document is processed.
DocumentIdle ==
    /\ job = [input |-> <<>>, top_ok |-> FALSE, write_uncompressed |-> FALSE,
              outfile_exists |-> FALSE]
    /\ doc = <<>>
    /\ dpos = 0
    /\ dstate = "idle"
    /\ failed = {}
    /\ outfile = [exists |-> FALSE, writes |-> 0, pages |-> <<>>]

\* A call of process_drawio_file on an input file whose top level is
\* well-formed XML or not.
DocumentInit ==
    /\ job \in [input : DocumentInputs, top_ok : BOOLEAN, write_uncompressed : BOOLEAN,
                outfile_exists : BOOLEAN]
    /\ doc = <<>>
    /\ dpos = 0
    /\ dstate = "start"
    /\ failed = {}
    /\ outfile = OutfileAtStart

\* tree = ET.parse(str(input_path)) and translator = Translator(...).
ParseDocument ==
    /\ dstate = "start"
    /\ dstate' = IF job.top_ok THEN "running" ELSE "aborted"
    /\ doc' = IF job.top_ok THEN job.input ELSE <<>>
    /\ dpos' = IF job.top_ok THEN 1 ELSE 0
    /\ cache' = <<>>
    /\ UNCHANGED <<fallback_engines, trCall, firstRet, clsVars, rwVars, job, failed, outfile>>

\* The state after the loop body ended as r for the <diagram> at dpos.
PageDone(r) ==
    /\ doc' = [doc EXCEPT ![dpos] = r.diagram]
    /\ cache' = r.cache
    /\ dstate' = AfterPage(r.raised)
    /\ failed' = IF r.raised THEN failed \cup {dpos} ELSE failed
    /\ dpos' = IF AfterPage(r.raised) = "running" THEN dpos + 1 ELSE dpos

\* One pass of `for diagram in root.iter()` on a <diagram> element.
ProcessPage ==
    /\ dstate = "running"
    /\ dpos <= Len(doc)
    /\ \E primary \in PagePrimaries(doc[dpos]) :
          PageDone(ProcessDiagram(doc[dpos], cache, primary, job.write_uncompressed))
    /\ UNCHANGED <<fallback_engines, trCall, firstRet, clsVars, rwVars, job, outfile>>

\* After the loop: output_dir.mkdir(...) and tree.write(out_path, ...).
WriteOutput ==
    /\ dstate = "running"
    /\ dpos = Len(doc) + 1
    /\ outfile' = [exists |-> TRUE, writes |-> outfile.writes + 1, pages |-> doc]
    /\ dstate' = "written"
    /\ UNCHANGED <<trVars, clsVars, rwVars, job, doc, dpos, failed>>

-----------------------------------------------------------------------------
(* Specifications                                                          *)

\* The Translator alone: any sequence of translate calls on one instance.
InitTranslator == TranslatorInit /\ ClassifierIdle /\ RewriterIdle /\ DocumentIdle
NextTranslator == TranslateCall
SpecTranslator == InitTranslator /\ [][NextTranslator]_vars

\* The classifier alone: one call on arguments drawn at the start.
InitClassifier == ClassifierInit /\ TranslatorIdle /\ RewriterIdle /\ DocumentIdle
NextClassifier == Classify
SpecClassifier == InitClassifier /\ [][NextClassifier]_vars

\* One page run through process_diagram_xml, MaxRuns times over.
InitRewriter == RewriterInit /\ ClassifierIdle /\ DocumentIdle
NextRewriter == StartPage \/ ApplyElement \/ FinishPage
SpecRewriter == InitRewriter /\ [][NextRewriter]_vars

\* One document run through process_drawio_file.
InitDocument == DocumentInit /\ TranslatorIdle /\ ClassifierIdle /\ RewriterIdle
NextDocument == ParseDocument \/ ProcessPage \/ WriteOutput
SpecDocument == InitDocument /\ [][NextDocument]_vars

-----------------------------------------------------------------------------
(* Claims about the Translator                                             *)

\* The cache key the last call's arguments stand for.
TrCallKey ==
    CacheKey(Lower(IF trCall.source_lang # "" THEN trCall.source_lang ELSE SOURCE_LANG),
             Strip(trCall.text), Lower(trCall.target_lang))

\* A backend outcome of the kinds C1 names: it raised, returned a non-string
\* or a blank string, or returned the text it was given.
BackendFailed(txt, o) ==
    \/ o.kind = "raise"
    \/ o.kind = "nonstr"
    \/ o.kind = "str" /\ (Strip(o.val) = "" \/ o.val = txt)

\* The last call consulted the backends and every one it consulted failed.
AllBackendsFailed ==
    /\ trCall.done
    /\ Strip(trCall.text) # ""
    /\ trCall.outs # <<>>
    /\ \A i \in DOMAIN trCall.outs : BackendFailed(Strip(trCall.text), trCall.outs[i])

\* C1: translate never raises, and when every backend it consults for a
\* non-empty text raises, returns a non-string or blank result, or returns the
\* text unchanged, it returns the trimmed input and caches it under the
\* call's (source, text, target) key.
C1_TranslateDegradesToInput ==
    /\ trCall.done => ~trCall.raised
    /\ AllBackendsFailed =>
          /\ trCall.ret = Strip(trCall.text)
          /\ TrCallKey \in DOMAIN cache
          /\ cache[TrCallKey] = Strip(trCall.text)

\* C1 witness: the primary raised, both fallbacks failed, the input came back.
C1_Witness ==
    /\ AllBackendsFailed
    /\ Len(trCall.outs) = 3
    /\ trCall.outs[1].kind = "raise"
    /\ trCall.outs[3].kind = "str"
    /\ trCall.text = " Hi "
    /\ trCall.ret = "Hi"

\* C2: a translate call for a (source_lang, text, target_lang) triple that
\* was translated before calls no backend and returns what the first call
\* for the triple returned.
C2_CacheCorrect ==
    (trCall.done /\ trCall.seen) =>
        /\ trCall.calls = <<>>
        /\ trCall.ret = trCall.first

\* C2 witness: repeated calls served from the cache, one after a successful
\* translation and one after the degraded outcome.
C2_Witness ==
    /\ trCall.done /\ trCall.seen /\ trCall.hit
    /\ trCall.ret = "Hi"
    /\ \E k \in DOMAIN cache : cache[k] = "Salut"

-----------------------------------------------------------------------------
(* Claims about the classifier                                             *)

\* The result is a member of the allow-list, compared case-insensitively.
ClsResultInAllowList ==
    \E i \in DOMAIN clsIn.allowed_langs : Lower(clsIn.allowed_langs[i]) = Lower(clsOut.lang)

\* C3 as stated: for every non-empty allow-list the classifier returns a
\* member of the allow-list.
C3_Original ==
    (clsOut.done /\ clsIn.allowed_langs # <<>>) => ClsResultInAllowList

\* C3 amended: for every allow-list with at least one non-empty code the
\* classifier returns a member of the allow-list, on every path.
C3_ClassifierBound ==
    (clsOut.done /\ \E i \in DOMAIN clsIn.allowed_langs : clsIn.allowed_langs[i] # "")
        => ClsResultInAllowList

\* C3 witness: no allowed language scored and the default is not allowed, so
\* the fallback took an element of the allow-list.
C3_Witness ==
    /\ clsOut.done
    /\ clsIn.allowed_langs = <<"EN", "de">>
    /\ clsIn.default_lang = "it"
    /\ clsIn.texts = <<"Hello", "Salut">>
    /\ clsIn.available
    /\ clsIn.answers = <<Guess("fr", 100), DetectRaises>>
    /\ clsOut.lang = "de"

-----------------------------------------------------------------------------
(* Claims about the label rewriter and the container resolver              *)

\* translate_and_apply_for_element has just returned: rwCall describes the
\* call and tree is the tree it left.
JustReturned == rwCall.done /\ rwCall.run = run /\ pos # 0

\* The call just returned was for a text-bearing node and wrote on a container.
WroteOnContainer == JustReturned /\ rwCall.text /\ rwCall.container # 0

\* The attributes of that container now, and when the resolver returned it.
ContainerNow == tree[rwCall.container].attrib
ContainerBefore == rwCall.before

\* translate(T, P -> L) of the page's backend, asked afresh.
TranslationOf(T, P, L) == TranslateVia(<<>>, page.backend, T, L, P).ret

\* The requested languages other than 'en' and the primary language.
OtherLanguages ==
    {Lower(page.languages[i]) : i \in DOMAIN page.languages} \ {"en", primary_lang}

\* C4: after the rewriter processed a node with 'en' among the requested
\* languages, the container has no label_en / label-en key that the rewriter
\* created: the English text lives in `label` only.
C4_NoBaseLanguageKey ==
    (WroteOnContainer /\ HasEn(page.languages)) =>
        \A k \in {"label_en", "label-en"} :
            k \in DOMAIN ContainerNow => k \in DOMAIN ContainerBefore

\* C5 as stated: with 'en' requested and a primary language P other than
\* 'en', after a text-bearing node with text T is processed the container's
\* label is translate(T, P -> en), the inner cell has neither value nor
\* label, label_<P> holds T and label_<L> holds translate(T, P -> L) for
\* every other requested language L.
C5Case == WroteOnContainer /\ HasEn(page.languages) /\ primary_lang # "en"
InnerCellCleared ==
    LET inner == GetInnerMxCellOfWrapper(tree, rwCall.container)
    IN  inner # 0 => DOMAIN tree[inner].attrib \cap {"value", "label"} = {}
KeyIsWritten(k) == page.overwrite \/ k \notin DOMAIN ContainerBefore

\* The key holds text if the call writes it, and what it held otherwise.
KeyHolds(k, text) ==
    /\ k \in DOMAIN ContainerNow
    /\ ContainerNow[k] = IF KeyIsWritten(k) THEN text ELSE ContainerBefore[k]

WrappedCell == JustReturned /\ rwCall.res.wrapped

\* C6: when the resolver wraps a bare mxCell whose parent is not a
\* UserObject, it returns a new UserObject that carries the cell's id and has
\* the cell's visible text as label; its single child is an mxCell with the
\* cell's children in order and the cell's attributes except id, value and
\* label.
C6_WrappingInvariant ==
    WrappedCell =>
        LET cell == tree[rwCall.res.cell]
            inner == tree[rwCall.res.inner]
            value == Get(cell.attrib, "value", "")
        IN  /\ rwCall.res.ret \notin Range(elems)
            /\ rwCall.res.ret # rwCall.res.cell
            /\ LocalName(tree[rwCall.res.ret].tag) = "UserObject"
            /\ Get(ContainerBefore, "id", "") = Get(cell.attrib, "id", "")
            /\ Get(ContainerBefore, "label", "") =
                   (IF Strip(value) # "" THEN value ELSE Get(cell.attrib, "label", ""))
            /\ tree[rwCall.res.ret].children = <<rwCall.res.inner>>
            /\ inner.tag = "mxCell"
            /\ inner.children = cell.children
            /\ DOMAIN inner.attrib = (DOMAIN cell.attrib) \ {"id", "value", "label"}
            /\ \A k \in DOMAIN inner.attrib : inner.attrib[k] = cell.attrib[k]

\* C6 witness: the cell with id 2, a style and a geometry child is wrapped:
\* the wrapper has its id and text, the inner cell its style and child.
C6_Witness ==
    /\ WrappedCell
    /\ Get(ContainerBefore, "id", "") = "2"
    /\ Get(ContainerBefore, "label", "") = "piece"
    /\ Get(tree[rwCall.res.inner].attrib, "style", "") = "rounded"
    /\ tree[rwCall.res.inner].children # <<>>

\* The containers of a tree: its UserObject elements.
Containers(t) == {n \in DOMAIN t : LocalName(t[n].tag) = "UserObject"}

\* The page was run twice with overwrite_existing false and the same primary
\* language.
RanTwice ==
    /\ run = 2
    /\ pos = 0
    /\ firstRun.done
    /\ ~page.overwrite
    /\ firstRun.primary_lang = primary_lang

\* C7: with overwrite_existing false, the same primary language and a
\* deterministic backend, the second run over the tree the first run
\* produced leaves every container with the attributes it had after the
\* first run.
C7_RewritingIdempotent ==
    RanTwice =>
        \A n \in Containers(firstRun.tree) :
            /\ n \in Containers(tree)
            /\ tree[n].attrib = firstRun.tree[n].attrib

\* The attributes of the container whose value the call set or changed.
ChangedKeys ==
    {k \in DOMAIN ContainerNow :
        k \notin DOMAIN ContainerBefore \/ ContainerBefore[k] # ContainerNow[k]}

\* C8: the count translate_and_apply_for_element returns is the number of
\* attribute values it set or changed on the container.
C8_WriteCountExact ==
    WroteOnContainer => rwCall.written = Cardinality(ChangedKeys)

-----------------------------------------------------------------------------
(* Claims about the document processor                                     *)

\* C9: the output file is written only after every page has been processed,
\* and when the processing of a page raised, the output path is as it was
\* before the call.
C9_AllOrNothing ==
    /\ outfile.writes > 0 => (failed = {} /\ dpos = Len(doc) + 1 /\ outfile.pages = doc)
    /\ failed # {} => outfile = OutfileAtStart

\* C9 witness: the second page raised after the first had been rewritten in
\* memory; the call is over and the file of an earlier run is untouched.
C9_Witness ==
    /\ dstate = "aborted"
    /\ failed = {2}
    /\ doc[1] # job.input[1]
    /\ outfile = OutfileAtStart
    /\ outfile.exists

\* The call is over, and nothing but compressed data that does not decode
\* was wrong with the input.
OnlyCodecFailures ==
    /\ dstate \in {"written", "aborted"}
    /\ job.top_ok
    /\ \A i \in DOMAIN job.input : job.input[i].kind # "malformed"
    /\ \E i \in DOMAIN job.input : job.input[i].kind = "junk"

\* C10: a page whose text is not valid base64/deflate data is left as it
\* is, the other pages are processed and the run completes and writes its
\* output.
C10_CodecFailureRecoverable ==
    OnlyCodecFailures =>
        /\ dstate = "written"
        /\ dpos = Len(doc) + 1
        /\ \A i \in DOMAIN job.input : job.input[i].kind = "junk" => doc[i] = job.input[i]

\* The encoding state of a <diagram>: child elements, no text, text that
\* is_compressed_diagram_text takes as compressed, or plain XML text.
EncodingState(d) ==
    IF d.kind = "inline" THEN "inline"
    ELSE IF d.kind = "blank" THEN "blank"
    ELSE IF IsCompressedDiagramText(d) THEN "framed"
    ELSE "plain"

\* The encoding state a page of the input is to have in the output.
ExpectedEncodingState(d) ==
    IF EncodingState(d) = "framed" /\ job.write_uncompressed THEN "plain"
    ELSE EncodingState(d)

\* C11: the document written has the pages of the input in their order, each
\* in the encoding state it had, except that a framed page is plain text
\* exactly when uncompressed output was requested.
C11_FramingPreserved ==
    dstate = "written" =>
        /\ Len(outfile.pages) = Len(job.input)
        /\ \A i \in DOMAIN job.input :
               EncodingState(outfile.pages[i]) = ExpectedEncodingState(job.input[i])

\* C11 witness: a document with a zlib-framed page and a plain page was
\* written compressed: the first is raw DEFLATE now, the second plain, both
\* rewritten.
C11_Witness ==
    /\ dstate = "written"
    /\ ~job.write_uncompressed
    /\ Len(job.input) = 2
    /\ job.input[1].kind = "zlib"
    /\ job.input[2].kind = "plain"
    /\ outfile.pages[1].kind = "deflate"
    /\ outfile.pages[2].kind = "plain"
    /\ outfile.pages[1].tree # job.input[1].tree
    /\ outfile.pages[2].tree # job.input[2].tree

-----------------------------------------------------------------------------
(* Further claims about the Translator, the classifier and the rewriter    *)

\* The last call had a non-empty text and the same source and target
\* language, compared case-insensitively.
SameLanguageCall ==
    /\ trCall.done
    /\ Strip(trCall.text) # ""
    /\ Lower(IF trCall.source_lang # "" THEN trCall.source_lang ELSE SOURCE_LANG)
           = Lower(trCall.target_lang)

\* C12: when source_lang equals target_lang, translate returns the input
\* text (trimmed), whatever a backend would return for it.
C12_SameLanguageNoOp ==
    SameLanguageCall => trCall.ret = Strip(trCall.text)

\* C13: the language the classifier returns is fixed by the sample texts, the
\* allow-list, the default and the detector's answers: it is the same for
\* every iteration order of the set of allowed codes.
C13_ClassifierDeterministic ==
    clsOut.done =>
        \A order \in Orders(AllowedSet(clsIn.allowed_langs)) :
            DetectPrimaryLanguageAllowed(clsIn.texts, clsIn.allowed_langs,
                                         clsIn.default_lang, clsIn.available,
                                         clsIn.answers, order) = clsOut.lang

\* The call just returned ran with overwrite_existing false.
NoOverwriteCall == WroteOnContainer /\ ~page.overwrite

\* C14: with overwrite_existing false, every label_<code> key the container
\* had before the call has the same value after it.
C14_NoOverwritePreserves ==
    NoOverwriteCall =>
        \A k \in DOMAIN ContainerBefore :
            StartsWith(k, "label_") =>
                /\ k \in DOMAIN ContainerNow
                /\ ContainerNow[k] = ContainerBefore[k]

\* C14 witness: a container with label_de "alt" was processed without
\* overwriting on a French page: it keeps "alt" although the backend has
\* another German text, and it received label_fr.
C14_Witness ==
    /\ NoOverwriteCall
    /\ rwCall.existed
    /\ page.backend = "dict"
    /\ primary_lang = "fr"
    /\ Get(ContainerBefore, "label_de", "") = "alt"
    /\ Get(ContainerNow, "label_de", "") = "alt"
    /\ TranslationOf(rwCall.original_text, primary_lang, "de") = "Hallo"
    /\ "label_fr" \notin DOMAIN ContainerBefore
    /\ Get(ContainerNow, "label_fr", "") = "Bonjour"

\* The acceptance rule for what a backend returned for txt: a non-blank
\* string other than txt.
AcceptedAnswer(txt, o) ==
    o.kind = "str" /\ Strip(o.val) # "" /\ Strip(o.val) # Strip(txt)

\* The last call was for a non-empty text with different source and target
\* languages and was not served from the cache.
UncachedTranslation ==
    /\ trCall.done
    /\ ~trCall.hit
    /\ Strip(trCall.text) # ""
    /\ Lower(IF trCall.source_lang # "" THEN trCall.source_lang ELSE SOURCE_LANG)
           # Lower(trCall.target_lang)

\* C15: for different source and target languages an uncached translate
\* calls the primary engine, then the fallback engines in list order, each
\* only after every earlier answer was rejected; it returns the first
\* accepted answer and calls no engine after it, and returns the text when
\* all 1 + (number of fallbacks) engines were called without an accepted
\* answer.
C15_FallbackChainOrder ==
    UncachedTranslation =>
        LET chain == <<TRANSLATOR_ENGINE>> \o fallback_engines
            n == Len(trCall.calls)
        IN  /\ n >= 1
            /\ n <= 1 + Len(fallback_engines)
            /\ trCall.calls = SubSeq(chain, 1, n)
            /\ Len(trCall.outs) = n
            /\ \A i \in 1..(n - 1) : ~AcceptedAnswer(trCall.text, trCall.outs[i])
            /\ IF AcceptedAnswer(trCall.text, trCall.outs[n])
               THEN trCall.ret = trCall.outs[n].val
               ELSE n = 1 + Len(fallback_engines) /\ trCall.ret = Strip(trCall.text)

\* C15 witness: with two fallbacks configured the primary returned the text
\* unchanged, the first fallback's answer was accepted and the second
\* fallback was not called.
C15_Witness ==
    /\ UncachedTranslation
    /\ fallback_engines = <<"bing", "deepl">>
    /\ trCall.calls = <<"google", "bing">>
    /\ trCall.outs[1] = Str("Hi")
    /\ trCall.outs[2] = Str("Salut")
    /\ trCall.ret = "Salut"

\* The elements of tree t that are part of the page: those under its root.
InTree(t) == Range(Iter(t, PageRoot))

\* The elements of the page that have n in their child list.
TreeParents(t, n) == {p \in InTree(t) : n \in Range(t[p].children)}

\* No two elements of the page carry the same id.
IdsUnique(t) ==
    \A a, b \in InTree(t) :
        ("id" \in DOMAIN t[a].attrib /\ "id" \in DOMAIN t[b].attrib
            /\ t[a].attrib["id"] = t[b].attrib["id"]) => a = b

\* The child list ch with the cell replaced by the wrapper.
WithWrapper(ch, cell, wrapper) ==
    [i \in DOMAIN ch |-> IF ch[i] = cell THEN wrapper ELSE ch[i]]

\* C16: when the resolver wraps a bare cell, the new container has the
\* cell's index in the child list of the cell's parent, whose other children
\* are unchanged in number and order; every other element of the page is
\* unchanged; and ids that were unique in the page are still unique.
C16_WrappingPreservesTree ==
    WrappedCell =>
        LET t0 == rwCall.treeBefore
            cell == rwCall.res.cell
        IN  /\ \A p \in TreeParents(t0, cell) :
                   tree[p].children = WithWrapper(t0[p].children, cell, rwCall.res.ret)
            /\ \A n \in InTree(t0) \ (TreeParents(t0, cell) \cup {cell}) : tree[n] = t0[n]
            /\ IdsUnique(t0) => IdsUnique(tree)

\* The call just returned was for a text-bearing mxCell that has no parent
\* in the parent map.
UnresolvableCell ==
    /\ JustReturned
    /\ rwCall.text
    /\ LocalName(rwCall.treeBefore[rwCall.elem].tag) = "mxCell"
    /\ rwCall.elem \notin DOMAIN parent_map

\* C17: for a text-bearing cell without a parent in the parent map the tree
\* is left as it was, no attribute is written for the node, and the loop
\* goes on to the next node.
C17_UnresolvableSkipped ==
    UnresolvableCell =>
        /\ tree = rwCall.treeBefore
        /\ rwCall.written = 0
        /\ pos > 0

\* The element carries a visible text.
TextBearing(t, n) ==
    /\ FindLabelText(t[n].attrib).found
    /\ DecodeLabelText(FindLabelText(t[n].attrib).text) # ""

\* The element has a language-coded key.
HasTranslationKeys(t, n) == \E k \in DOMAIN t[n].attrib : StartsWith(k, "label_")

\* C18: the container that received the translation attributes of a node is
\* part of the page's tree, and in the tree the page run returns no mxCell
\* carries a visible text unless it or its parent has translation keys.
C18_RewritesLandInTree ==
    /\ WroteOnContainer => rwCall.container \in InTree(tree)
    /\ firstRun.done =>
          \A n \in InTree(firstRun.tree) :
              (LocalName(firstRun.tree[n].tag) = "mxCell" /\ TextBearing(firstRun.tree, n)) =>
                  \/ HasTranslationKeys(firstRun.tree, n)
                  \/ \E p \in TreeParents(firstRun.tree, n) :
                         HasTranslationKeys(firstRun.tree, p)

=============================================================================
